---- MODULE Spec2Model ----
(***************************************************************************)
(* MergeHelper (mergehelper.py): scan a directory tree for multi-track     *)
(* BIN/CUE sets, stage each set into an 'orig' backup directory, run the   *)
(* binmerge tool, and commit or roll back.                                 *)
(*                                                                         *)
(* A file name is a pair <<stem, ext>>; a path is a sequence of names; the *)
(* file system is the set of directories `dirs` and the map `fs` from the  *)
(* path of each regular file to its content.  A content is a record        *)
(* [id, lines]: id tells where the bytes came from (the path the file had  *)
(* before the run, or the merge tool), lines is the text read by the CUE   *)
(* parser.                                                                 *)
(***************************************************************************)
EXTENDS Integers, Sequences, FiniteSets, TLC

\* Bounds of the model.
MaxFileLines == 2    \* longest CUE sheet, in lines
MaxFaults == 1       \* file-system calls that may raise in one run

---------------------------------------------------------------------------
\* Names and paths.

Nm(stem, ext) == <<stem, ext>>
Stem(name) == name[1]
Ext(name) == name[2]

\* str.lower() on the extensions that occur.
Lower(s) == CASE s = "CUE" -> "cue" [] s = "BIN" -> "bin" [] OTHER -> s

\* os.path.join(dir, name), os.path.basename(path), the directory part.
Join(dir, name) == Append(dir, name)
Basename(path) == path[Len(path)]
Dirname(path) == SubSeq(path, 1, Len(path) - 1)

\* os.path.splitext(cue_file)[0]
Splitext0(name) == Stem(name)

\* file.lower().endswith(".cue")
IsCueName(name) == Lower(Ext(name)) = "cue"

GAMEROOT == << Nm("roms", "") >>
ORIG == Nm("orig", "")

A_CUE == Nm("a", "cue")
B_CUE == Nm("b", "cue")
T1_CUE == Nm("t1", "cue")
A_BIN == Nm("a", "bin")
T1_BIN == Nm("t1", "bin")
T2_BIN == Nm("t2", "bin")
U1_BIN == Nm("u1", "bin")
U2_BIN == Nm("u2", "bin")
Z_TXT == Nm("z", "txt")

---------------------------------------------------------------------------
\* File-system primitives, as functions of a file map f and a directory set d.

\* An existence test that does not see what an 'orig' directory holds.
Exists_BlindInOrig(f, d, p) ==
    /\ p \in DOMAIN f \/ p \in d
    /\ ~(Len(p) >= 2 /\ Basename(Dirname(p)) = ORIG)

\* os.path.exists(p)
Exists(f, d, p) == p \in DOMAIN f \/ p \in d

Listdir(f, d, dir) == {p \in (DOMAIN f) \cup d : Len(p) = Len(dir) + 1 /\ Dirname(p) = dir}

FsRemove(f, p) == [q \in (DOMAIN f) \ {p} |-> f[q]]

FsPut(f, p, c) == [q \in (DOMAIN f) \cup {p} |-> IF q = p THEN c ELSE f[q]]

\* shutil.move(src, dst): into dst/basename(src) when dst is a directory,
\* refusing an existing destination; onto dst itself otherwise.
MoveDst(d, src, dst) == IF dst \in d THEN Join(dst, Basename(src)) ELSE dst

MoveRaises(f, d, src, dst) ==
    \/ src \notin DOMAIN f
    \/ dst \in d /\ Exists(f, d, MoveDst(d, src, dst))
    \/ dst \notin d /\ Dirname(dst) \notin d

Move(f, d, src, dst) == FsPut(FsRemove(f, src), MoveDst(d, src, dst), f[src])

\* os.makedirs(path, exist_ok=True) raises when the path is a regular file.
MakedirsRaises(f, p) == p \in DOMAIN f

---------------------------------------------------------------------------
\* CUE sheets.  A line is [kw, quoted]: kw is the first word, quoted the
\* sequence of the substrings between double quotes.

Upper(s) == CASE s = "file" -> "FILE" [] s = "track" -> "TRACK" [] OTHER -> s

FileLine(name) == [kw |-> "FILE", quoted |-> <<name>>]
TrackLine == [kw |-> "TRACK", quoted |-> <<>>]
BadFileLine == [kw |-> "file", quoted |-> <<>>]

\* line.strip().upper().startswith("FILE")
StartsWithFILE(line) == Upper(line.kw) = "FILE"

\* A parser that puts each new name in front of the list.
ParseCue_Reversed(lines) ==
    LET valid == SelectSeq(lines, LAMBDA line :
                     StartsWithFILE(line) /\ Len(line.quoted) >= 1)
    IN [i \in 1..Len(valid) |-> valid[Len(valid) + 1 - i].quoted[1]]

\* line.split('"')[1] raises IndexError when the line has no quote.
RECURSIVE ParseCue(_)
ParseCue(lines) ==
    IF lines = <<>> THEN <<>>
    ELSE LET line == Head(lines)
             rest == ParseCue(Tail(lines))
         IN IF StartsWithFILE(line) /\ Len(line.quoted) >= 1
            THEN <<line.quoted[1]>> \o rest
            ELSE rest

Content(id, lines) == [id |-> id, lines |-> lines]

\* What binmerge writes: <name>.bin and a sheet <name>.cue that references it.
MERGED == Nm("binmerge", "")
MergedContent(name, ext) ==
    Content(<<MERGED, Nm(name, ext)>>,
            IF ext = "cue" THEN <<FileLine(Nm(name, "bin"))>> ELSE <<>>)

IsMerged(c) == c.id[1] = MERGED

---------------------------------------------------------------------------
\* State.

VARIABLES
    fs,              \* regular files: path -> content
    dirs,            \* directories
    pc,              \* position of the script
    REMOVEMODE,      \* "0" keep, "1" delete on success, "2" prompt
    walk,            \* os.walk: directories still to visit
    games_to_merge,  \* list of Game records built by the scan
    index,           \* position of process_games in the list (from 1)
    k,               \* position in the file list of the current loop
    cur,             \* what happened so far to the game being processed
    done,            \* one summary per game already processed
    faults,          \* file-system calls that raised by accident so far
    exit_status,     \* -1 while running, then the exit code of the process
    process,         \* the binmerge child and its two pipes (see PipeSpec)
    log              \* what the pre-check and the scan have reported so far

vars == <<fs, dirs, pc, REMOVEMODE, walk, games_to_merge, index, k, cur, done,
          faults, exit_status, process, log>>

Game(name, directory, cue_file, bin_count, bin_files) ==
    [name |-> name, directory |-> directory, cue_file |-> cue_file,
     bin_count |-> bin_count, bin_files |-> bin_files]

\* orig_dir = os.path.join(game.directory, "orig")
orig_dir(game) == Join(game.directory, ORIG)

\* game.bin_files + [os.path.basename(game.cue_file)]
FileList(game) == game.bin_files \o <<Basename(game.cue_file)>>

\* output_files = {f"{game.name}.bin", f"{game.name}.cue"}
output_files(game) == {Join(game.directory, Nm(game.name, "bin")),
                       Join(game.directory, Nm(game.name, "cue"))}

Range(s) == {s[i] : i \in 1..Len(s)}

\* The orderings a directory listing can come in.
Orders(S) == {s \in [1..Cardinality(S) -> S] : \A i, j \in 1..Cardinality(S) : s[i] = s[j] => i = j}

---------------------------------------------------------------------------
\* Initial trees.

RECURSIVE SeqsUpTo(_, _)
SeqsUpTo(S, n) ==
    IF n = 0 THEN {<<>>}
    ELSE LET shorter == SeqsUpTo(S, n - 1)
         IN shorter \cup {Append(s, x) : s \in {t \in shorter : Len(t) = n - 1}, x \in S}

\* Sheets of a.cue: every sequence of FILE lines over two track names.
SheetsA == SeqsUpTo({FileLine(T1_BIN), FileLine(T2_BIN)}, MaxFileLines)

\* Sheets of b.cue, a second sheet of the same directory: absent (<<>> here),
\* one that names a.bin as a track, one that shares both tracks with a.cue.
SheetsB == { <<>>,
             <<FileLine(A_BIN), FileLine(T2_BIN)>>,
             <<FileLine(T1_BIN), FileLine(T2_BIN)>> }

\* The 'orig' directory of GAMEROOT before the run.
OrigKinds == {"absent", "empty", "stray", "conflict", "nested", "file"}

ROOT_ORIG == Join(GAMEROOT, ORIG)

OrigFiles(kind) ==
    CASE kind = "stray" -> {<<Z_TXT, <<>> >>}
      [] kind = "conflict" -> {<<T1_BIN, <<>> >>}
      [] kind = "nested" -> {<<T1_CUE, <<FileLine(U1_BIN), FileLine(U2_BIN)>> >>,
                             <<U1_BIN, <<>> >>, <<U2_BIN, <<>> >>}
      [] OTHER -> {}

InitFiles(sheetA, sheetB, hasT2, hasABin, kind) ==
    LET top == {<<A_CUE, sheetA>>, <<T1_BIN, <<>> >>}
               \cup (IF sheetB # <<>> THEN {<<B_CUE, sheetB>>} ELSE {})
               \cup (IF hasT2 THEN {<<T2_BIN, <<>> >>} ELSE {})
               \cup (IF hasABin THEN {<<A_BIN, <<>> >>} ELSE {})
        topF == {<<Join(GAMEROOT, e[1]), e[2]>> : e \in top}
        origF == {<<Join(ROOT_ORIG, e[1]), e[2]>> : e \in OrigFiles(kind)}
        fileF == IF kind = "file" THEN {<<ROOT_ORIG, <<>> >>} ELSE {}
    IN topF \cup origF \cup fileF

InitFs(entries) ==
    [p \in {e[1] : e \in entries} |->
        Content(p, (CHOOSE e \in entries : e[1] = p)[2])]

InitDirs(kind) ==
    {GAMEROOT} \cup (IF kind \in {"absent", "file"} THEN {} ELSE {ROOT_ORIG})

\* No child is running.
NoProcess == [todo |-> <<>>, stdout |-> 0, stderr |-> 0, alive |-> FALSE,
              returncode |-> -1, at |-> "none"]

NoHist(f, d) ==
    [pre_fs |-> f, pre_dirs |-> d, staged |-> FALSE, launched |-> 0, rc |-> -1,
     wrote |-> {}, raised |-> {}, deleted |-> {}, not_restored |-> {},
     outcome |-> "none"]

\* One line of the log: what was reported, and about which path.
Msg(msg, path) == [msg |-> msg, path |-> path]

\* GAMEROOT is a setting: nothing makes the directory exist.
Init ==
    /\ \/ \E sheetA \in SheetsA, sheetB \in SheetsB, hasT2 \in BOOLEAN,
             hasABin \in BOOLEAN, kind \in OrigKinds :
             /\ fs = InitFs(InitFiles(sheetA, sheetB, hasT2, hasABin, kind))
             /\ dirs = InitDirs(kind)
       \/ /\ fs = InitFs({})
          /\ dirs = {}
    /\ REMOVEMODE \in {"0", "1", "2"}
    /\ pc = "check_dependencies"
    /\ walk = <<>>
    /\ games_to_merge = <<>>
    /\ index = 0
    /\ k = 0
    /\ cur = NoHist(fs, dirs)
    /\ done = <<>>
    /\ faults = 0
    /\ exit_status = -1
    /\ process = NoProcess
    /\ log = <<>>

---------------------------------------------------------------------------
\* The script, top to bottom.

Exit(status) ==
    /\ pc' = "exit"
    /\ exit_status' = status

\* An exception nobody catches: traceback, exit status 1.
Uncaught == Exit(1)

\* A file-system call raising by accident (permissions, a full disk, ...).
MayFault == faults < MaxFaults

\* check_dependencies(): binmerge.py is there, or is downloaded, or exit 1.
check_dependencies ==
    /\ pc = "check_dependencies"
    /\ \E present \in BOOLEAN, downloaded \in BOOLEAN :
          IF present \/ downloaded
          THEN /\ pc' = "prompt"
               /\ log' = Append(log, Msg("dependencies_ok", <<>>))
               /\ UNCHANGED exit_status
          ELSE /\ Exit(1)
               /\ log' = Append(log, Msg("dependencies_failed", <<>>))
    /\ UNCHANGED process
    /\ UNCHANGED <<fs, dirs, REMOVEMODE, walk, games_to_merge, index, k, cur,
                   done, faults>>

\* The REMOVEMODE prompt, then the first line of scan_directories.
Prompt ==
    /\ pc = "prompt"
    /\ \E answer \in {"y", "n", "q", "other"} :
          IF REMOVEMODE # "2"
          THEN pc' = "scan" /\ UNCHANGED <<REMOVEMODE, exit_status>>
          ELSE CASE answer = "y" ->
                      REMOVEMODE' = "1" /\ pc' = "scan" /\ UNCHANGED exit_status
                 [] answer = "n" ->
                      REMOVEMODE' = "2" /\ pc' = "scan" /\ UNCHANGED exit_status
                 [] OTHER -> Exit(1) /\ UNCHANGED REMOVEMODE
    /\ walk' = IF GAMEROOT \in dirs THEN <<GAMEROOT>> ELSE <<>>
    /\ log' = IF pc' = "scan" THEN Append(log, Msg("scan_begin", GAMEROOT))
              ELSE log
    /\ UNCHANGED process
    /\ UNCHANGED <<fs, dirs, games_to_merge, index, k, cur, done, faults>>

\* A loop body that takes a sheet with a single track for a game.
GamesOfCue_AtLeastOne(root, cue_file) ==
    LET cue_file_path == Join(root, cue_file)
        bin_files == ParseCue(fs[cue_file_path].lines)
        missing_bins == {b \in Range(bin_files) : ~Exists(fs, dirs, Join(root, b))}
        game_name == Splitext0(cue_file)
        bin_count == Len(bin_files)
    IN IF missing_bins # {} THEN <<>>
       ELSE IF bin_count > 0
            THEN <<Game(game_name, root, cue_file_path, bin_count, bin_files)>>
            ELSE <<>>

\* The body of the loop over cue_files for one CUE sheet: the Game it adds.
GamesOfCue(root, cue_file) ==
    LET cue_file_path == Join(root, cue_file)
        bin_files == ParseCue(fs[cue_file_path].lines)
        missing_bins == {b \in Range(bin_files) : ~Exists(fs, dirs, Join(root, b))}
        game_name == Splitext0(cue_file)
        bin_count == Len(bin_files)
    IN IF missing_bins # {} THEN <<>>
       ELSE IF bin_count > 1
            THEN <<Game(game_name, root, cue_file_path, bin_count, bin_files)>>
            ELSE <<>>

\* What the loop body reports about the CUE sheet.
VerdictOfCue(root, cue_file) ==
    LET bin_files == ParseCue(fs[Join(root, cue_file)].lines)
        missing_bins == {b \in Range(bin_files) : ~Exists(fs, dirs, Join(root, b))}
    IN IF missing_bins # {} THEN "missing_bin_files"
       ELSE IF Len(bin_files) > 1 THEN "identified"
            ELSE IF Len(bin_files) = 1 THEN "no_merge_needed"
                 ELSE "no_bin_files"

\* A loop that ends at the first sheet with a missing track.
RECURSIVE GamesOfCues_StopsAtMissing(_, _, _)
GamesOfCues_StopsAtMissing(root, cue_files, unreadable) ==
    IF cue_files = <<>> THEN <<>>
    ELSE IF Head(cue_files) \in unreadable
         THEN GamesOfCues_StopsAtMissing(root, Tail(cue_files), unreadable)
         ELSE IF VerdictOfCue(root, Head(cue_files)) = "missing_bin_files"
              THEN <<>>
              ELSE GamesOfCue(root, Head(cue_files))
                   \o GamesOfCues_StopsAtMissing(root, Tail(cue_files), unreadable)

\* The loop over cue_files; reading a sheet of `unreadable` raises (it cannot
\* be opened, or is not UTF-8), which `except Exception` reports.
RECURSIVE GamesOfCues(_, _, _)
GamesOfCues(root, cue_files, unreadable) ==
    IF cue_files = <<>> THEN <<>>
    ELSE (IF Head(cue_files) \in unreadable THEN <<>>
          ELSE GamesOfCue(root, Head(cue_files)))
         \o GamesOfCues(root, Tail(cue_files), unreadable)

RECURSIVE LogOfCues(_, _, _)
LogOfCues(root, cue_files, unreadable) ==
    IF cue_files = <<>> THEN <<>>
    ELSE <<Msg(IF Head(cue_files) \in unreadable THEN "failed_to_process"
               ELSE VerdictOfCue(root, Head(cue_files)),
               Join(root, Head(cue_files)))>>
         \o LogOfCues(root, Tail(cue_files), unreadable)

\* A scan that prepares the 'orig' directory of each directory it visits.
scan_directories_MakesOrig ==
    /\ pc = "scan"
    /\ walk # <<>>
    /\ LET root == Head(walk)
           entries == Listdir(fs, dirs, root)
           files == {Basename(p) : p \in entries \cap DOMAIN fs}
           subdirs == entries \cap dirs
           cue_names == {f \in files : IsCueName(f)}
       IN \E cue_files \in Orders(cue_names), below \in Orders(subdirs),
             unreadable \in {{}} \cup {{c} : c \in IF MayFault THEN cue_names
                                                   ELSE {}} :
             /\ games_to_merge' =
                   games_to_merge \o GamesOfCues(root, cue_files, unreadable)
             /\ log' = log \o <<Msg("visit", root)>>
                           \o LogOfCues(root, cue_files, unreadable)
             /\ faults' = faults + Cardinality(unreadable)
             /\ walk' = below \o Tail(walk)
             /\ dirs' = dirs \cup {Join(root, ORIG)}
    /\ UNCHANGED process
    /\ UNCHANGED <<fs, pc, REMOVEMODE, index, k, cur, done, exit_status>>

\* A scan that does not go down into directories named 'orig'.
scan_directories_SkipsOrig ==
    /\ pc = "scan"
    /\ walk # <<>>
    /\ LET root == Head(walk)
           entries == Listdir(fs, dirs, root)
           files == {Basename(p) : p \in entries \cap DOMAIN fs}
           subdirs == entries \cap dirs
           cue_names == {f \in files : IsCueName(f)}
       IN \E cue_files \in Orders(cue_names), below \in Orders(subdirs),
             unreadable \in {{}} \cup {{c} : c \in IF MayFault THEN cue_names
                                                   ELSE {}} :
             /\ games_to_merge' =
                   games_to_merge \o GamesOfCues(root, cue_files, unreadable)
             /\ log' = log \o <<Msg("visit", root)>>
                           \o LogOfCues(root, cue_files, unreadable)
             /\ faults' = faults + Cardinality(unreadable)
             /\ walk' = SelectSeq(below, LAMBDA sub : Basename(sub) # ORIG)
                        \o Tail(walk)
    /\ UNCHANGED process
    /\ UNCHANGED <<fs, dirs, pc, REMOVEMODE, index, k, cur, done, exit_status>>

\* One iteration of `for root, dirs, files in os.walk(GAMEROOT)`.
scan_directories ==
    /\ pc = "scan"
    /\ walk # <<>>
    /\ LET root == Head(walk)
           entries == Listdir(fs, dirs, root)
           files == {Basename(p) : p \in entries \cap DOMAIN fs}
           subdirs == entries \cap dirs
           cue_names == {f \in files : IsCueName(f)}
       IN \E cue_files \in Orders(cue_names), below \in Orders(subdirs),
             unreadable \in {{}} \cup {{c} : c \in IF MayFault THEN cue_names
                                                   ELSE {}} :
             /\ games_to_merge' =
                   games_to_merge \o GamesOfCues(root, cue_files, unreadable)
             /\ log' = log \o <<Msg("visit", root)>>
                           \o LogOfCues(root, cue_files, unreadable)
             /\ faults' = faults + Cardinality(unreadable)
             /\ walk' = below \o Tail(walk)
    /\ UNCHANGED process
    /\ UNCHANGED <<fs, dirs, pc, REMOVEMODE, index, k, cur, done, exit_status>>

\* A display_progress that copes with an empty list.
display_progress_raises_Never(current, total) == FALSE

\* display_progress(current, total) divides by total.
display_progress_raises(current, total) == total = 0

\* scan_directories returns; process_games starts: display_progress(0, total).
process_games ==
    /\ pc = "scan"
    /\ walk = <<>>
    /\ IF display_progress_raises(0, Len(games_to_merge))
       THEN Uncaught /\ UNCHANGED index
       ELSE IF games_to_merge = <<>>
            THEN pc' = "finished" /\ UNCHANGED <<index, exit_status>>
            ELSE pc' = "begin" /\ index' = 1 /\ UNCHANGED exit_status
    /\ UNCHANGED <<process, log>>
    /\ UNCHANGED <<fs, dirs, REMOVEMODE, walk, games_to_merge, k, cur, done,
                   faults>>

---------------------------------------------------------------------------
\* process_games: one game.

game == games_to_merge[index]

Raised(tag) == cur' = [cur EXCEPT !.raised = @ \cup {tag}]

\* The finally clause, or the skip branch: display_progress(index, total).
Finished(outcome, tags) ==
    /\ cur' = [cur EXCEPT !.outcome = outcome, !.raised = @ \cup tags]
    /\ pc' = "game_end"

\* A conflict check that looks for the CUE sheet only.
conflicting_files_CueOnly(f, d, g) ==
    {file \in {Basename(g.cue_file)} : Exists(f, d, Join(orig_dir(g), file))}

\* A conflict check that counts every entry of 'orig'.
conflicting_files_AnyEntry(f, d, g) ==
    {Basename(p) : p \in Listdir(f, d, orig_dir(g))}

\* conflicting_files, as a set
conflicting_files(f, d, g) ==
    {file \in Range(FileList(g)) : Exists(f, d, Join(orig_dir(g), file))}

\* Lines 419-426: makedirs (outside the try), then the conflict check.  With
\* exist_ok=True an existing directory is accepted; creating one may fail.
BeginGame ==
    /\ pc = "begin"
    /\ \/ /\ MakedirsRaises(fs, orig_dir(game))
          /\ Uncaught
          /\ cur' = [NoHist(fs, dirs) EXCEPT !.raised = {"makedirs"},
                                             !.outcome = "uncaught"]
          /\ UNCHANGED <<dirs, k, faults>>
       \/ /\ ~MakedirsRaises(fs, orig_dir(game))
          /\ orig_dir(game) \notin dirs
          /\ MayFault
          /\ faults' = faults + 1
          /\ Uncaught
          /\ cur' = [NoHist(fs, dirs) EXCEPT !.raised = {"makedirs"},
                                             !.outcome = "uncaught"]
          /\ UNCHANGED <<dirs, k>>
       \/ /\ ~MakedirsRaises(fs, orig_dir(game))
          /\ dirs' = dirs \cup {orig_dir(game)}
          /\ IF conflicting_files(fs, dirs', game) # {}
             THEN /\ cur' = [NoHist(fs, dirs) EXCEPT !.outcome = "skipped"]
                  /\ pc' = "game_end"
                  /\ UNCHANGED k
             ELSE /\ cur' = NoHist(fs, dirs)
                  /\ pc' = "stage"
                  /\ k' = 1
          /\ UNCHANGED <<faults, exit_status>>
    /\ UNCHANGED <<process, log>>
    /\ UNCHANGED <<fs, REMOVEMODE, walk, games_to_merge, index, done>>

\* A staging loop that goes on after a move that raised.
StageMove_IgnoresFailure ==
    /\ pc = "stage"
    /\ LET src == Join(game.directory, FileList(game)[k])
           dst == orig_dir(game)
       IN \/ /\ MoveRaises(fs, dirs, src, dst)
             /\ UNCHANGED fs
          \/ /\ ~MoveRaises(fs, dirs, src, dst)
             /\ fs' = Move(fs, dirs, src, dst)
    /\ IF k < Len(FileList(game))
       THEN k' = k + 1 /\ UNCHANGED <<pc, cur>>
       ELSE /\ pc' = "merge"
            /\ cur' = [cur EXCEPT !.staged = TRUE]
            /\ UNCHANGED k
    /\ UNCHANGED <<process, log>>
    /\ UNCHANGED <<dirs, REMOVEMODE, walk, games_to_merge, index, done,
                   exit_status, faults>>

\* Lines 428-431: one shutil.move into orig; an exception ends the game at
\* line 433 with the files moved so far left where they are.
StageMove ==
    /\ pc = "stage"
    /\ LET src == Join(game.directory, FileList(game)[k])
           dst == orig_dir(game)
       IN \/ /\ MoveRaises(fs, dirs, src, dst)
             /\ Finished("stage_failed", {"stage"})
             /\ UNCHANGED <<fs, k, faults>>
          \/ /\ ~MoveRaises(fs, dirs, src, dst)
             /\ MayFault
             /\ faults' = faults + 1
             /\ Finished("stage_failed", {"stage"})
             /\ UNCHANGED <<fs, k>>
          \/ /\ ~MoveRaises(fs, dirs, src, dst)
             /\ fs' = Move(fs, dirs, src, dst)
             /\ IF k < Len(FileList(game))
                THEN k' = k + 1 /\ UNCHANGED <<pc, cur>>
                ELSE /\ pc' = "merge"
                     /\ cur' = [cur EXCEPT !.staged = TRUE]
                     /\ UNCHANGED k
             /\ UNCHANGED faults
    /\ UNCHANGED <<process, log>>
    /\ UNCHANGED <<dirs, REMOVEMODE, walk, games_to_merge, index, done,
                   exit_status>>

\* Lines 281-301: run binmerge and wait for it.  The tool is a black box: it
\* creates any of its two output files that do not exist yet and exits with
\* any code.  Popen itself may raise (no interpreter), which is handled like a
\* failed merge.
RunBinmerge ==
    /\ pc = "merge"
    /\ \/ \E returncode \in {0, 1},
             written \in SUBSET {p \in output_files(game) : ~Exists(fs, dirs, p)} :
             /\ fs' = [p \in (DOMAIN fs) \cup written |->
                          IF p \in written
                          THEN MergedContent(game.name, Ext(Basename(p)))
                          ELSE fs[p]]
             /\ IF returncode # 0
                THEN /\ pc' = "rollback"
                     /\ cur' = [cur EXCEPT !.launched = @ + 1, !.rc = returncode,
                                           !.wrote = written]
                     /\ UNCHANGED k
                ELSE IF REMOVEMODE = "1"
                THEN /\ pc' = "commit"
                     /\ k' = 1
                     /\ cur' = [cur EXCEPT !.launched = @ + 1, !.rc = returncode,
                                           !.wrote = written]
                ELSE /\ pc' = "game_end"
                     /\ cur' = [cur EXCEPT !.launched = @ + 1, !.rc = returncode,
                                           !.wrote = written, !.outcome = "kept"]
                     /\ UNCHANGED k
             /\ UNCHANGED faults
       \/ /\ MayFault
          /\ faults' = faults + 1
          /\ Raised("popen")
          /\ pc' = "rollback"
          /\ UNCHANGED <<fs, k>>
    /\ UNCHANGED <<process, log>>
    /\ UNCHANGED <<dirs, REMOVEMODE, walk, games_to_merge, index, done,
                   exit_status>>

---------------------------------------------------------------------------
\* merge_bin_files after a successful merge, REMOVEMODE "1" (lines 304-316).

\* os.remove(path) raises unless path is a regular file.
RemoveRaises(f, p) == p \notin DOMAIN f

\* A commit without the inner try: a failing delete falls into the rollback.
CommitRemove_NoInnerTry ==
    /\ pc = "commit"
    /\ LET path == Join(orig_dir(game), FileList(game)[k])
       IN \/ /\ ~RemoveRaises(fs, path)
             /\ fs' = FsRemove(fs, path)
             /\ cur' = [cur EXCEPT !.deleted = @ \cup {fs[path].id}]
             /\ IF k < Len(FileList(game))
                THEN k' = k + 1 /\ UNCHANGED pc
                ELSE pc' = "commit_rmdir" /\ UNCHANGED k
             /\ UNCHANGED faults
          \/ /\ MayFault
             /\ faults' = faults + 1
             /\ Raised("commit_remove")
             /\ pc' = "rollback"
             /\ UNCHANGED <<fs, k>>
    /\ UNCHANGED <<process, log>>
    /\ UNCHANGED <<dirs, REMOVEMODE, walk, games_to_merge, index, done,
                   exit_status>>

\* One os.remove(os.path.join(orig_dir, file)); an exception is logged by the
\* inner handler and the game still ends as a success.
CommitRemove ==
    /\ pc = "commit"
    /\ LET path == Join(orig_dir(game), FileList(game)[k])
       IN \/ /\ RemoveRaises(fs, path)
             /\ Finished("committed", {"commit_remove"})
             /\ UNCHANGED <<fs, k, faults>>
          \/ /\ ~RemoveRaises(fs, path)
             /\ MayFault
             /\ faults' = faults + 1
             /\ Finished("committed", {"commit_remove"})
             /\ UNCHANGED <<fs, k>>
          \/ /\ ~RemoveRaises(fs, path)
             /\ fs' = FsRemove(fs, path)
             /\ cur' = [cur EXCEPT !.deleted = @ \cup {fs[path].id}]
             /\ IF k < Len(FileList(game))
                THEN k' = k + 1 /\ UNCHANGED pc
                ELSE pc' = "commit_rmdir" /\ UNCHANGED k
             /\ UNCHANGED faults
    /\ UNCHANGED <<process, log>>
    /\ UNCHANGED <<dirs, REMOVEMODE, walk, games_to_merge, index, done,
                   exit_status>>

\* A commit that forgets to remove the emptied directory.
CommitRmdir_NoRmdir ==
    /\ pc = "commit_rmdir"
    /\ Finished("committed", {})
    /\ UNCHANGED <<process, log>>
    /\ UNCHANGED <<fs, dirs, REMOVEMODE, walk, games_to_merge, index, k, done,
                   faults, exit_status>>

\* if not os.listdir(orig_dir): os.rmdir(orig_dir)   (still in the inner try)
CommitRmdir ==
    /\ pc = "commit_rmdir"
    /\ \/ /\ orig_dir(game) \notin dirs
          /\ Finished("committed", {"commit_rmdir"})
          /\ UNCHANGED <<dirs, faults>>
       \/ /\ orig_dir(game) \in dirs
          /\ MayFault
          /\ faults' = faults + 1
          /\ Finished("committed", {"commit_rmdir"})
          /\ UNCHANGED dirs
       \/ /\ orig_dir(game) \in dirs
          /\ dirs' = IF Listdir(fs, dirs, orig_dir(game)) = {}
                     THEN dirs \ {orig_dir(game)}
                     ELSE dirs
          /\ Finished("committed", {})
          /\ UNCHANGED faults
    /\ UNCHANGED <<process, log>>
    /\ UNCHANGED <<fs, REMOVEMODE, walk, games_to_merge, index, k, done,
                   exit_status>>

---------------------------------------------------------------------------
\* merge_bin_files, the handler of line 322: rollback.

\* A rollback that leaves the partial output files where they are.
RollbackClean_KeepsOutputs ==
    /\ pc = "rollback"
    /\ pc' = "restore"
    /\ k' = 1
    /\ UNCHANGED <<process, log>>
    /\ UNCHANGED <<fs, dirs, REMOVEMODE, walk, games_to_merge, index, cur, done,
                   faults, exit_status>>

\* Lines 326-331: remove <name>.bin and <name>.cue from game.directory if they
\* exist.  os.remove is not guarded here: when it raises, the handler is left
\* and the exception reaches line 433 of process_games.
RollbackClean ==
    /\ pc = "rollback"
    /\ LET present == {p \in output_files(game) : Exists(fs, dirs, p)}
           removable == present \cap DOMAIN fs
       IN \/ /\ present = removable
             /\ fs' = [p \in (DOMAIN fs) \ present |-> fs[p]]
             /\ pc' = "restore"
             /\ k' = 1
             /\ UNCHANGED <<cur, faults>>
          \/ \E failing \in present : \E before \in SUBSET (removable \ {failing}) :
             /\ failing \in removable => MayFault
             /\ faults' = IF failing \in removable THEN faults + 1 ELSE faults
             /\ fs' = [p \in (DOMAIN fs) \ before |-> fs[p]]
             /\ Finished("rollback_aborted", {"rollback_remove"})
             /\ UNCHANGED k
    /\ UNCHANGED <<process, log>>
    /\ UNCHANGED <<dirs, REMOVEMODE, walk, games_to_merge, index, done,
                   exit_status>>

\* Line 337-338: the move back of `src` raised and was logged.
NotRestored(src) ==
    cur' = [cur EXCEPT !.raised = @ \cup {"restore"},
                       !.not_restored = @ \cup {src}]

\* A restoration loop that ends at the first move that raises.
RollbackMove_StopsAtFailure ==
    /\ pc = "restore"
    /\ LET src == Join(orig_dir(game), FileList(game)[k])
           dst == game.directory
       IN \/ /\ MoveRaises(fs, dirs, src, dst)
             /\ NotRestored(src)
             /\ pc' = "rollback_rmdir"
             /\ UNCHANGED <<fs, faults, k>>
          \/ /\ ~MoveRaises(fs, dirs, src, dst)
             /\ MayFault
             /\ faults' = faults + 1
             /\ NotRestored(src)
             /\ pc' = "rollback_rmdir"
             /\ UNCHANGED <<fs, k>>
          \/ /\ ~MoveRaises(fs, dirs, src, dst)
             /\ fs' = Move(fs, dirs, src, dst)
             /\ IF k < Len(FileList(game))
                THEN k' = k + 1 /\ UNCHANGED pc
                ELSE pc' = "rollback_rmdir" /\ UNCHANGED k
             /\ UNCHANGED <<cur, faults>>
    /\ UNCHANGED <<process, log>>
    /\ UNCHANGED <<dirs, REMOVEMODE, walk, games_to_merge, index, done,
                   exit_status>>

\* Lines 334-338: one shutil.move back; an exception is logged and the loop
\* goes on with the next file.
RollbackMove ==
    /\ pc = "restore"
    /\ LET src == Join(orig_dir(game), FileList(game)[k])
           dst == game.directory
       IN \/ /\ MoveRaises(fs, dirs, src, dst)
             /\ NotRestored(src)
             /\ UNCHANGED <<fs, faults>>
          \/ /\ ~MoveRaises(fs, dirs, src, dst)
             /\ MayFault
             /\ faults' = faults + 1
             /\ NotRestored(src)
             /\ UNCHANGED fs
          \/ /\ ~MoveRaises(fs, dirs, src, dst)
             /\ fs' = Move(fs, dirs, src, dst)
             /\ UNCHANGED <<cur, faults>>
    /\ IF k < Len(FileList(game))
       THEN k' = k + 1 /\ UNCHANGED pc
       ELSE pc' = "rollback_rmdir" /\ UNCHANGED k
    /\ UNCHANGED <<process, log>>
    /\ UNCHANGED <<dirs, REMOVEMODE, walk, games_to_merge, index, done,
                   exit_status>>

\* Lines 341-343: if not os.listdir(orig_dir): os.rmdir(orig_dir).  Unguarded
\* as well.
RollbackRmdir ==
    /\ pc = "rollback_rmdir"
    /\ \/ /\ orig_dir(game) \notin dirs
          /\ Finished("rollback_aborted", {"rollback_rmdir"})
          /\ UNCHANGED <<dirs, faults>>
       \/ /\ orig_dir(game) \in dirs
          /\ MayFault
          /\ faults' = faults + 1
          /\ Finished("rollback_aborted", {"rollback_rmdir"})
          /\ UNCHANGED dirs
       \/ /\ orig_dir(game) \in dirs
          /\ dirs' = IF Listdir(fs, dirs, orig_dir(game)) = {}
                     THEN dirs \ {orig_dir(game)}
                     ELSE dirs
          /\ Finished("rolled_back", {})
          /\ UNCHANGED faults
    /\ UNCHANGED <<process, log>>
    /\ UNCHANGED <<fs, REMOVEMODE, walk, games_to_merge, index, k, done,
                   exit_status>>

---------------------------------------------------------------------------
\* End of one iteration of process_games and end of the script.

Summary(h) == [rc |-> h.rc, outcome |-> h.outcome, staged |-> h.staged]

EndGame ==
    /\ pc = "game_end"
    /\ done' = Append(done, Summary(cur))
    /\ IF index < Len(games_to_merge)
       THEN index' = index + 1 /\ pc' = "begin"
       ELSE pc' = "finished" /\ UNCHANGED index
    /\ UNCHANGED <<process, log>>
    /\ UNCHANGED <<fs, dirs, REMOVEMODE, walk, games_to_merge, k, cur, faults,
                   exit_status>>

\* Lines 490-495: the script runs off its end.
Finish ==
    /\ pc = "finished"
    /\ Exit(0)
    /\ UNCHANGED <<process, log>>
    /\ UNCHANGED <<fs, dirs, REMOVEMODE, walk, games_to_merge, index, k, cur,
                   done, faults>>

Next ==
    \/ check_dependencies
    \/ Prompt
    \/ scan_directories
    \/ process_games
    \/ BeginGame
    \/ StageMove
    \/ RunBinmerge
    \/ CommitRemove
    \/ CommitRmdir
    \/ RollbackClean
    \/ RollbackMove
    \/ RollbackRmdir
    \/ EndGame
    \/ Finish

Spec == Init /\ [][Next]_vars

---------------------------------------------------------------------------
\* The merge invocation alone (lines 281-297): the child writes lines to two
\* bounded pipes and exits; the parent reads stdout to its end, then stderr
\* to its end, then waits.  The run of the tool inside RunBinmerge above is
\* this exchange, taken there in one step on the assumption that it ends.

PipeCapacity == 1    \* lines a pipe holds before a write blocks
MaxWrites == 4       \* lines the child writes in all

\* What the child is going to write, in order, each line to one stream.
ChildScripts == SeqsUpTo({"stdout", "stderr"}, MaxWrites)

\* The frozen file system of the pipe specification: one staged game.
PipeFs == InitFs({<<Join(ROOT_ORIG, A_CUE), <<FileLine(T1_BIN), FileLine(T2_BIN)>> >>,
                  <<Join(ROOT_ORIG, T1_BIN), <<>> >>,
                  <<Join(ROOT_ORIG, T2_BIN), <<>> >>})

\* subprocess.Popen(command, stdout=PIPE, stderr=PIPE, ...)
PipeInit ==
    /\ \E todo \in ChildScripts :
          process = [todo |-> todo, stdout |-> 0, stderr |-> 0, alive |-> TRUE,
                     returncode |-> -1, at |-> "read_stdout"]
    /\ fs = PipeFs
    /\ dirs = {GAMEROOT, ROOT_ORIG}
    /\ REMOVEMODE \in {"0", "1"}
    /\ pc = "merge"
    /\ walk = <<>>
    /\ games_to_merge = <<Game("a", GAMEROOT, Join(GAMEROOT, A_CUE), 2, <<T1_BIN, T2_BIN>>)>>
    /\ index = 1
    /\ k = 3
    /\ cur = [NoHist(fs, dirs) EXCEPT !.staged = TRUE]
    /\ done = <<>>
    /\ faults = 0
    /\ exit_status = -1
    /\ log = <<>>

main_vars == <<fs, dirs, pc, REMOVEMODE, walk, games_to_merge, index, k, cur,
               done, faults, exit_status, log>>

\* The child writes its next line; the write blocks while that pipe is full.
ChildWrite ==
    /\ process.alive
    /\ process.todo # <<>>
    /\ LET stream == Head(process.todo)
       IN /\ process[stream] < PipeCapacity
          /\ process' = [process EXCEPT ![stream] = @ + 1, !.todo = Tail(@)]
    /\ UNCHANGED main_vars

\* The child has written everything: it exits, which closes both pipes.
ChildExit ==
    /\ process.alive
    /\ process.todo = <<>>
    /\ \E returncode \in {0, 1} :
          process' = [process EXCEPT !.alive = FALSE, !.returncode = returncode]
    /\ UNCHANGED main_vars

\* for line in process.stdout: a line when there is one, the end of the loop
\* at end of file, and otherwise the parent blocks.
ReadStdout ==
    /\ process.at = "read_stdout"
    /\ \/ /\ process.stdout > 0
          /\ process' = [process EXCEPT !.stdout = @ - 1]
       \/ /\ process.stdout = 0
          /\ ~process.alive
          /\ process' = [process EXCEPT !.at = "read_stderr"]
    /\ UNCHANGED main_vars

\* for line in process.stderr, entered only once stdout is at end of file.
ReadStderr ==
    /\ process.at = "read_stderr"
    /\ \/ /\ process.stderr > 0
          /\ process' = [process EXCEPT !.stderr = @ - 1]
       \/ /\ process.stderr = 0
          /\ ~process.alive
          /\ process' = [process EXCEPT !.at = "wait"]
    /\ UNCHANGED main_vars

\* process.wait(): returns once the child has exited.
Wait ==
    /\ process.at = "wait"
    /\ ~process.alive
    /\ process' = [process EXCEPT !.at = "returned"]
    /\ UNCHANGED main_vars

PipeNext ==
    \/ ChildWrite
    \/ ChildExit
    \/ ReadStdout
    \/ ReadStderr
    \/ Wait

PipeSpec == PipeInit /\ [][PipeNext]_vars

---------------------------------------------------------------------------
\* scan_directories alone, on trees with more kinds of CUE sheet.

MaxScanLines == 3    \* longest CUE sheet of the scan's trees, in lines

C_CUE == Nm("c", "CUE")

\* Sheets of a.cue: FILE lines, lines of other commands, FILE lines with no
\* quoted name, in every order.
ScanSheets ==
    SeqsUpTo({FileLine(T1_BIN), FileLine(T2_BIN), TrackLine, BadFileLine},
             MaxScanLines)

ScanKinds == {"absent", "stray", "nested"}

\* The state in which main calls scan_directories(GAMEROOT): beside a.cue
\* there is no second sheet, or b.cue, or c.CUE.
ScanInit ==
    /\ \E sheetA \in ScanSheets, sheetB \in SheetsB, hasT2 \in BOOLEAN,
          hasUpper \in BOOLEAN, kind \in ScanKinds :
          /\ hasUpper => sheetB = <<>>
          /\ fs = InitFs(InitFiles(sheetA, sheetB, hasT2, TRUE, kind)
                         \cup (IF hasUpper
                               THEN {<<Join(GAMEROOT, C_CUE),
                                       <<FileLine(T1_BIN), FileLine(T2_BIN)>> >>}
                               ELSE {}))
          /\ dirs = InitDirs(kind)
    /\ REMOVEMODE = "0"
    /\ pc = "scan"
    /\ walk = <<GAMEROOT>>
    /\ games_to_merge = <<>>
    /\ index = 0
    /\ k = 0
    /\ cur = NoHist(fs, dirs)
    /\ done = <<>>
    /\ faults = 0
    /\ exit_status = -1
    /\ process = NoProcess
    /\ log = <<Msg("dependencies_ok", <<>>), Msg("scan_begin", GAMEROOT)>>

ScanNext ==
    \/ scan_directories
    \/ process_games

ScanSpec == ScanInit /\ [][ScanNext]_vars

---------------------------------------------------------------------------
\* Vocabulary of the properties.

\* The original files of a game, named by the path they had when scanned.
Originals(g) == {Join(g.directory, file) : file \in Range(FileList(g))}
Tracks(g) == {Join(g.directory, file) : file \in Range(g.bin_files)}

\* Where an original file is staged.
StagedPath(id) == Join(Join(Dirname(id), ORIG), Basename(id))

AtHome(id) == id \in DOMAIN fs /\ fs[id].id = id
InOrig(id) == StagedPath(id) \in DOMAIN fs /\ fs[StagedPath(id)].id = id
Survives(id) == \E p \in DOMAIN fs : fs[p].id = id

\* The regular files directly in a directory, with their contents.
FilesIn(f, dir) == {<<p, f[p]>> : p \in {q \in DOMAIN f : Dirname(q) = dir}}

\* process_games is inside the loop body for games_to_merge[index].
CurActive == pc \in {"stage", "merge", "commit", "commit_rmdir", "rollback",
                     "restore", "rollback_rmdir", "game_end"}

\* The exit code binmerge gave for games_to_merge[i]; -1 if it has not run.
RcOf(i) == IF i <= Len(done) THEN done[i].rc
           ELSE IF i = index /\ CurActive THEN cur.rc
           ELSE -1

StagedOf(i) == IF i <= Len(done) THEN done[i].staged
               ELSE IF i = index /\ CurActive THEN cur.staged
               ELSE FALSE

\* The 'orig' directory of the current game held nothing when the game began.
OrigWasEmpty == Listdir(cur.pre_fs, cur.pre_dirs, orig_dir(game)) = {}

---------------------------------------------------------------------------
\* C1: when every file of a game was staged and binmerge exits non-zero, then
\* on return of merge_bin_files (no move back having raised) every original
\* file is back in the game's directory, no <name>.bin or <name>.cue written
\* by the tool is left there, and 'orig' is gone if it is empty.
C1_RollbackRestores ==
    (/\ pc = "game_end"
     /\ cur.staged
     /\ cur.rc > 0
     /\ cur.outcome = "rolled_back"
     /\ "restore" \notin cur.raised)
    => /\ \A id \in Originals(game) : AtHome(id)
       /\ \A p \in output_files(game) : p \in DOMAIN fs => ~IsMerged(fs[p])
       /\ Listdir(fs, dirs, orig_dir(game)) = {} => orig_dir(game) \notin dirs

C1_Witness ==
    /\ pc = "game_end"
    /\ cur.staged
    /\ cur.rc > 0
    /\ cur.outcome = "rolled_back"
    /\ "restore" \notin cur.raised
    /\ cur.wrote = output_files(game)
    /\ orig_dir(game) \notin dirs

\* C2 (as claimed): every original file of every discovered game is in the
\* game's directory or in its 'orig', unless binmerge exited 0 for a game
\* that references the file and REMOVEMODE is "1".
C2_NoDataLoss ==
    \A i \in 1..Len(games_to_merge) :
        \A id \in Originals(games_to_merge[i]) :
            \/ AtHome(id)
            \/ InOrig(id)
            \/ /\ REMOVEMODE = "1"
               /\ \E j \in 1..Len(games_to_merge) :
                     id \in Originals(games_to_merge[j]) /\ RcOf(j) = 0

\* C3 (as claimed): staging then rollback, nothing raising, leaves the game's
\* directory with the files and contents it had before staging.
C3_RoundTrip ==
    (/\ pc = "game_end"
     /\ cur.staged
     /\ cur.outcome = "rolled_back"
     /\ cur.raised = {})
    => FilesIn(fs, game.directory) = FilesIn(cur.pre_fs, game.directory)

\* C4 (as claimed): a game whose 'orig' holds any file when the game begins is
\* skipped: nothing moved, binmerge not run, both directories unchanged.
C4_NonEmptyOrigSkips ==
    (/\ CurActive
     /\ \E p \in Listdir(cur.pre_fs, cur.pre_dirs, orig_dir(game)) : p \in DOMAIN cur.pre_fs)
    => /\ cur.outcome = "skipped"
       /\ cur.launched = 0
       /\ fs = cur.pre_fs
       /\ dirs = cur.pre_dirs

\* C4 (amended): a game is skipped, with nothing moved, binmerge not run and
\* both directories unchanged, when its 'orig' already holds a file named
\* like one of the game's own files (a track or the CUE sheet).
C4_ConflictSkips ==
    (/\ CurActive
     /\ \E file \in Range(FileList(game)) :
            Join(orig_dir(game), file) \in DOMAIN cur.pre_fs)
    => /\ cur.outcome = "skipped"
       /\ cur.launched = 0
       /\ fs = cur.pre_fs
       /\ dirs = cur.pre_dirs

C4_Witness ==
    /\ pc = "game_end"
    /\ cur.outcome = "skipped"
    /\ Join(orig_dir(game), T1_BIN) \in DOMAIN cur.pre_fs
    /\ fs = cur.pre_fs

\* C5 (as claimed): whatever fails while one game is handled, process_games
\* goes on to the games after it: the process never ends before the last
\* game of the list.
C5_FailureIsolation ==
    pc = "exit" => index = Len(games_to_merge)

\* C6 (as claimed): when a move into 'orig' raises after a file of the game
\* was already moved, the moved files are brought back: the game ends with
\* all its original files in its directory.
C6_PartialStagingRolledBack ==
    (/\ pc = "game_end"
     /\ cur.outcome = "stage_failed"
     /\ k > 1)
    => \A id \in Originals(game) : AtHome(id)

\* C7: a game staged into an empty or absent 'orig', merged with exit code 0
\* and both outputs written, under REMOVEMODE "1" and no call raising: 'orig'
\* is gone, no original track file is left anywhere, and the directory holds
\* the merged <name>.bin and <name>.cue.
C7_CommitDeletes ==
    (/\ pc = "game_end"
     /\ REMOVEMODE = "1"
     /\ cur.rc = 0
     /\ cur.wrote = output_files(game)
     /\ OrigWasEmpty
     /\ cur.raised = {})
    => /\ orig_dir(game) \notin dirs
       /\ \A id \in Tracks(game) : ~Survives(id)
       /\ \A p \in output_files(game) : p \in DOMAIN fs /\ IsMerged(fs[p])

C7_Witness ==
    /\ pc = "game_end"
    /\ REMOVEMODE = "1"
    /\ cur.rc = 0
    /\ cur.wrote = output_files(game)
    /\ OrigWasEmpty
    /\ cur.raised = {}
    /\ cur.outcome = "committed"

\* C8 (as claimed): original files leave 'orig' for good only on the commit
\* path: unless binmerge exited 0 for the game and REMOVEMODE is "1", every
\* original of a staged game is in 'orig' or back in its directory, and in
\* 'orig' once the merge succeeded.
C8_DeleteOnlyOnCommit ==
    \A i \in 1..Len(games_to_merge) :
        (StagedOf(i) /\ ~(REMOVEMODE = "1" /\ RcOf(i) = 0))
        => \A id \in Originals(games_to_merge[i]) :
              /\ AtHome(id) \/ InOrig(id)
              /\ RcOf(i) = 0 => InOrig(id)

\* C9: binmerge exited 0, REMOVEMODE is "1", and a delete in 'orig' (or the
\* removal of the directory) raises: the game still ends as committed, what
\* the tool wrote stays, no original is moved back, and the originals not
\* deleted yet are still in 'orig'.
C9_CleanupFailureIsNotRollback ==
    (/\ pc = "game_end"
     /\ cur.rc = 0
     /\ REMOVEMODE = "1"
     /\ cur.raised \cap {"commit_remove", "commit_rmdir"} # {})
    => /\ cur.outcome = "committed"
       /\ \A p \in cur.wrote : p \in DOMAIN fs /\ IsMerged(fs[p])
       /\ \A id \in Originals(game) :
             /\ ~AtHome(id)
             /\ id \notin cur.deleted => InOrig(id)

C9_Witness ==
    /\ pc = "game_end"
    /\ cur.rc = 0
    /\ REMOVEMODE = "1"
    /\ "commit_remove" \in cur.raised
    /\ cur.deleted # {}
    /\ cur.wrote = output_files(game)
    /\ \E id \in Originals(game) : InOrig(id)

\* C10 (as claimed): the merge invocation cannot deadlock on output: until
\* the invoker has the exit code, the child or the invoker can take a step
\* (nobody is blocked for ever on a pipe).
C10_NoPipeDeadlock ==
    process.at \in {"read_stdout", "read_stderr", "wait"} => ENABLED PipeNext

---------------------------------------------------------------------------
\* The pre-check, the scan and the exit status.

Logged(msg) == \E i \in DOMAIN log : log[i].msg = msg

\* The directories the scan has looked into, in order.
Visited == [i \in DOMAIN SelectSeq(log, LAMBDA m : m.msg = "visit") |->
               SelectSeq(log, LAMBDA m : m.msg = "visit")[i].path]

\* No game has been taken from the list yet.
NoUnitProcessed ==
    /\ index = 0
    /\ done = <<>>
    /\ cur.outcome = "none"
    /\ fs = cur.pre_fs
    /\ dirs = cur.pre_dirs

\* C11: when binmerge.py is absent and cannot be downloaded, or GAMEROOT does
\* not exist, the exit status is never 0, no directory is ever scanned and
\* no game is ever processed.
C11_PreconditionFailureExits ==
    (Logged("dependencies_failed") \/ GAMEROOT \notin dirs) =>
        /\ exit_status # 0
        /\ pc \in {"check_dependencies", "prompt", "scan", "exit"}
        /\ Visited = <<>>
        /\ games_to_merge = <<>>
        /\ NoUnitProcessed

\* The run with binmerge.py available and GAMEROOT missing has ended.
C11_Witness ==
    /\ pc = "exit"
    /\ Logged("dependencies_ok")
    /\ Logged("scan_begin")
    /\ GAMEROOT \notin dirs
    /\ exit_status = 1

\* C12 (as claimed): when binmerge.py is available, GAMEROOT exists and the
\* prompt was answered, the process ends with exit status 0, whatever the
\* scan found (no game included) and whatever happened to each game.
C12_ExitsZero ==
    (pc = "exit" /\ Logged("scan_begin") /\ GAMEROOT \in dirs) => exit_status = 0

---------------------------------------------------------------------------
\* What the scan owes to each CUE sheet of the tree.

\* os.walk has run out of directories.
ScanDone == Logged("scan_begin") /\ walk = <<>>

\* The sheets of the tree the scan started on.
CueSheets == {p \in DOMAIN cur.pre_fs : Lower(Ext(Basename(p))) = "cue"}
LinesOf(p) == cur.pre_fs[p].lines

\* The FILE lines of a sheet that carry a quoted name, and the names.
ValidFileLines(p) ==
    SelectSeq(LinesOf(p), LAMBDA line : line.kw = "FILE" /\ line.quoted # <<>>)
NamesOf(p) == [i \in DOMAIN ValidFileLines(p) |-> ValidFileLines(p)[i].quoted[1]]

TrackMissing(p) ==
    \E i \in DOMAIN NamesOf(p) :
        Join(Dirname(p), NamesOf(p)[i]) \notin DOMAIN cur.pre_fs \cup cur.pre_dirs

\* Reading the sheet raised.
ReadFailed(p) == \E i \in DOMAIN log : log[i] = Msg("failed_to_process", p)
Evaluated(p) == \E i \in DOMAIN log : log[i].path = p /\ log[i].msg # "visit"

Qualifies(p) == Len(NamesOf(p)) >= 2 /\ ~TrackMissing(p) /\ ~ReadFailed(p)

\* The entries of games_to_merge made for a sheet.
UnitsOf(p) == {i \in DOMAIN games_to_merge : games_to_merge[i].cue_file = p}

\* C13: after the scan, every CUE sheet that was read, has N >= 2 FILE lines
\* with a quoted name and all of whose tracks exist beside it has exactly one
\* game, with the N names in the order of the lines (repeated names
\* included) and the name of the sheet without extension.
C13_OneUnitPerQualifyingSheet ==
    ScanDone =>
        \A p \in CueSheets :
            Qualifies(p) =>
                /\ Cardinality(UnitsOf(p)) = 1
                /\ \A i \in UnitsOf(p) :
                      /\ games_to_merge[i].bin_files = NamesOf(p)
                      /\ games_to_merge[i].bin_count = Len(NamesOf(p))
                      /\ games_to_merge[i].name = Stem(Basename(p))
                      /\ games_to_merge[i].directory = Dirname(p)

\* A game from a three-line sheet: a line that is no FILE line, and twice
\* two different names in the order t2, t1 or a repeated name.
C13_Witness ==
    /\ ScanDone
    /\ \E i \in DOMAIN games_to_merge :
          /\ Len(LinesOf(games_to_merge[i].cue_file)) = 3
          /\ games_to_merge[i].bin_files \in {<<T2_BIN, T1_BIN>>, <<T2_BIN, T2_BIN>>}

\* C14: after the scan, a CUE sheet that yields one track name or none has
\* no game.
C14_NoUnitBelowTwoTracks ==
    ScanDone =>
        \A p \in CueSheets : Len(NamesOf(p)) <= 1 => UnitsOf(p) = {}

\* A sheet with one track was put aside while another sheet became a game.
C14_Witness ==
    /\ ScanDone
    /\ \E i \in DOMAIN log : log[i].msg = "no_merge_needed"
    /\ games_to_merge # <<>>

\* C15: after the scan, a CUE sheet with a track that is not beside it has
\* no game; every sheet of the tree has been evaluated all the same, and
\* every sheet that qualifies has its game.
C15_MissingTrackDoesNotStopScan ==
    ScanDone =>
        \A p \in CueSheets :
            /\ TrackMissing(p) => UnitsOf(p) = {}
            /\ (\E q \in CueSheets : TrackMissing(q)) =>
                  /\ Evaluated(p)
                  /\ Qualifies(p) => UnitsOf(p) # {}

\* A sheet with a missing track was met first; a later sheet of the same
\* directory and a sheet of a directory below both became games.
C15_Witness ==
    /\ ScanDone
    /\ \E i, j, n \in DOMAIN log :
          /\ i < j
          /\ log[i].msg = "missing_bin_files"
          /\ log[j].msg = "identified"
          /\ Dirname(log[j].path) = Dirname(log[i].path)
          /\ log[n].msg = "identified"
          /\ Dirname(log[n].path) # Dirname(log[i].path)

\* C16: while scan_directories runs and when it returns, the directories,
\* the files and their contents are those it started on.
C16_ScanLeavesTreeUnchanged ==
    (pc = "scan" /\ Logged("scan_begin")) =>
        /\ fs = cur.pre_fs
        /\ dirs = cur.pre_dirs

\* The scan has gone through two directories and found a game.
C16_Witness ==
    /\ pc = "scan"
    /\ ScanDone
    /\ Len(Visited) >= 2
    /\ games_to_merge # <<>>
    /\ fs = cur.pre_fs

---------------------------------------------------------------------------
\* One game and the others.

\* process_games has not begun games_to_merge[j].
NotReached(j) == j > index \/ (j = index /\ pc = "begin")

\* The files of games_to_merge[j] that no other game of the list references.
OwnFiles(j) ==
    Originals(games_to_merge[j])
        \ UNION {Originals(games_to_merge[i]) : i \in DOMAIN games_to_merge \ {j}}

\* C17 (as claimed): staging, committing or rolling back one game never
\* moves, deletes or overwrites a file of another game; here for the files
\* that only the other game references: until process_games reaches that
\* game, each of them is where the scan found it, with its content.
C17_OtherUnitsUntouched ==
    \A j \in DOMAIN games_to_merge :
        NotReached(j) => \A id \in OwnFiles(j) : AtHome(id)

---------------------------------------------------------------------------
\* The launch of the merge tool.

\* C18: for the game being processed, binmerge is started at most once; where
\* it is about to be started every file of the game (tracks and CUE sheet) is
\* in 'orig'; it has been started only after the staging loop completed; and
\* a game that was skipped or whose staging failed has never had it started.
\* The same for the games already processed.
C18_LaunchOnlyWhenStaged ==
    /\ CurActive =>
          /\ cur.launched <= 1
          /\ pc = "merge" =>
                /\ cur.launched = 0
                /\ \A id \in Originals(game) : InOrig(id) /\ ~AtHome(id)
          /\ cur.launched = 1 => cur.staged /\ "stage" \notin cur.raised
          /\ cur.outcome \in {"skipped", "stage_failed"} =>
                cur.launched = 0 /\ cur.rc = -1
    /\ \A i \in DOMAIN done :
          (done[i].outcome \in {"skipped", "stage_failed"} \/ ~done[i].staged)
              => done[i].rc = -1

\* A staged game's tool run has failed once and the game is over; an earlier
\* game was skipped or failed to stage.
C18_Witness ==
    /\ pc = "game_end"
    /\ cur.launched = 1
    /\ cur.rc = 1
    /\ \E i \in DOMAIN done : done[i].outcome \in {"skipped", "stage_failed"}

---------------------------------------------------------------------------
\* Restoration with a move that fails.

\* The restoration loop of the current game has run to its end.
RestoreLoopDone ==
    \/ pc = "rollback_rmdir"
    \/ pc = "game_end" /\ cur.outcome = "rolled_back"

\* C19: when the restoration loop has ended, every file of the game whose
\* move back did not raise is in the game's directory with its content and
\* no longer in 'orig', also when it comes after one whose move raised (that
\* one is still in 'orig'); and once the rollback has completed, 'orig'
\* exists exactly if it is not empty.
C19_RestoreContinues ==
    /\ RestoreLoopDone =>
          \A i \in DOMAIN FileList(game) :
              LET home == Join(game.directory, FileList(game)[i])
                  src == Join(orig_dir(game), FileList(game)[i])
              IN IF src \in cur.not_restored
                 THEN src \in DOMAIN fs /\ fs[src].id = home
                 ELSE AtHome(home) /\ src \notin DOMAIN fs
    /\ (pc = "game_end" /\ cur.outcome = "rolled_back") =>
          (orig_dir(game) \in dirs <=> Listdir(fs, dirs, orig_dir(game)) # {})

\* The move back of the first file raised; the files after it are back in
\* the game's directory and 'orig' is kept with the one file.
C19_Witness ==
    /\ pc = "game_end"
    /\ cur.outcome = "rolled_back"
    /\ cur.not_restored = {Join(orig_dir(game), FileList(game)[1])}
    /\ \A i \in 2..Len(FileList(game)) :
          AtHome(Join(game.directory, FileList(game)[i]))
    /\ Len(FileList(game)) >= 3
    /\ orig_dir(game) \in dirs

---------------------------------------------------------------------------
\* The conflict check.

\* The names of the current game's files that 'orig' held when the game began.
NamesTaken ==
    {file \in Range(FileList(game)) :
        Join(orig_dir(game), file) \in DOMAIN cur.pre_fs \cup cur.pre_dirs}

\* C20: a game is skipped exactly when 'orig' already holds an entry named
\* like one of the game's own files (a track or the CUE sheet); a skipped
\* game has no file moved, no directory changed and no binmerge run; a game
\* whose 'orig' holds only other names goes into staging.
C20_SkippedIffOwnNameTaken ==
    CurActive =>
        /\ cur.outcome = "skipped" <=> NamesTaken # {}
        /\ cur.outcome = "skipped" =>
              /\ fs = cur.pre_fs
              /\ dirs = cur.pre_dirs
              /\ cur.launched = 0
              /\ ~cur.staged
        /\ pc = "stage" => NamesTaken = {}

\* 'orig' held a file of another name and the game has been staged.
C20_Witness ==
    /\ pc = "merge"
    /\ cur.staged
    /\ Join(orig_dir(game), Z_TXT) \in DOMAIN cur.pre_fs
    /\ NamesTaken = {}

---------------------------------------------------------------------------
\* Moves and existing files.

\* What one step of a move loop may do to the files: nothing (the move
\* raised), or take one file to a path of the destination directory where
\* there was neither a file nor a directory, every other file untouched.
MovedOntoFreeName(dir) ==
    \E src \in DOMAIN fs :
        LET target == Join(dir, Basename(src))
        IN /\ target \notin DOMAIN fs \cup dirs
           /\ fs' = [q \in ((DOMAIN fs) \ {src}) \cup {target} |->
                        IF q = target THEN fs[src] ELSE fs[q]]

\* C21: a step of the staging loop or of the restoration loop never
\* replaces a file: it moves one file onto a name that was free in 'orig'
\* (staging) or in the game's directory (restoration), or it changes no
\* file at all.
C21_MoveNeverReplaces ==
    [][ /\ pc = "stage" => (fs' = fs \/ MovedOntoFreeName(orig_dir(game)))
        /\ pc = "restore" => (fs' = fs \/ MovedOntoFreeName(game.directory))
      ]_vars

\* A game was staged into an 'orig' that already held a file and brought
\* back: its files are home and the file 'orig' held is as it was.
C21_Witness ==
    /\ pc = "rollback_rmdir"
    /\ cur.staged
    /\ cur.not_restored = {}
    /\ \A id \in Originals(game) : AtHome(id)
    /\ \E p \in DOMAIN cur.pre_fs :
          /\ Dirname(p) = orig_dir(game)
          /\ p \in DOMAIN fs
          /\ fs[p] = cur.pre_fs[p]

---------------------------------------------------------------------------
\* 'orig' directories under the scan.

InOrigDir(p) == Len(p) >= 2 /\ Basename(Dirname(p)) = ORIG

\* C22: the scan treats an 'orig' directory like any other: when it returns,
\* every CUE sheet lying in an 'orig' directory that was read, has two or
\* more tracks and has them all beside it has its game, whose directory is
\* that 'orig' directory; process_games then handles the game like any
\* other: it is skipped only for a name taken in its own 'orig' (an 'orig'
\* inside 'orig'), and where binmerge is about to run on it its files are
\* staged one level further down.
C22_OrigIsScannedLikeAnyDirectory ==
    /\ (pc = "scan" /\ ScanDone) =>
          \A p \in CueSheets :
              (InOrigDir(p) /\ Qualifies(p)) =>
                  \E i \in UnitsOf(p) :
                      /\ games_to_merge[i].directory = Dirname(p)
                      /\ games_to_merge[i].bin_files = NamesOf(p)
    /\ (CurActive /\ Basename(game.directory) = ORIG) =>
          /\ cur.outcome = "skipped" => NamesTaken # {}
          /\ pc = "merge" =>
                \A file \in Range(FileList(game)) :
                    /\ Join(Join(game.directory, ORIG), file) \in DOMAIN fs
                    /\ Join(game.directory, file) \notin DOMAIN fs

\* The sheet found in GAMEROOT/orig became a game; its files were staged
\* into GAMEROOT/orig/orig, binmerge ran on them with success and wrote the
\* merged pair into GAMEROOT/orig.
C22_Witness ==
    /\ pc = "game_end"
    /\ game.directory = ROOT_ORIG
    /\ cur.outcome = "kept"
    /\ cur.launched = 1
    /\ cur.rc = 0
    /\ cur.wrote = output_files(game)
    /\ \A id \in Originals(game) : InOrig(id)

====
